---- MODULE Spec2Model ----
(***************************************************************************)
(* A model of txstatsd's ConsistentHashRing (src/txstatsd/hashing.py) and  *)
(* of its SlidingDistinctCounter and DistinctMetricReporter                *)
(* (src/txstatsd/metrics/distinctmetric.py) and HistogramMetricReporter    *)
(* (src/txstatsd/metrics/histogrammetric.py).  Each component has its own  *)
(* variables and its own specification; a specification keeps the other    *)
(* components' variables at their parked values.                           *)
(*                                                                         *)
(* The code base is Python 2 (dict.iteritems, the (2,6)/(2,7) version      *)
(* switches in distinctmetric.py), so the search entry (position, None)    *)
(* of get_node/get_nodes is ordered as Python 2 orders it: None is smaller *)
(* than every node identifier.  Node identifiers are modelled by the       *)
(* naturals 1..n in the order Python gives them, None by 0.                *)
(*                                                                         *)
(* MD5 is a fixed function of the key that the model does not compute.     *)
(* A key is a pair: the replica key "%s:%d" % (node, i) is <<node, i>>,    *)
(* and the variable md5 holds the first 32 bits of the digest of every     *)
(* replica key, chosen arbitrarily when a behaviour starts and never       *)
(* changed: equal keys hash equally, different keys may collide, and every *)
(* ordering of the replica positions occurs.  Any other key string matters *)
(* to the ring only through its position p, and is the pair <<None, p>>:   *)
(* one key for every position.                                             *)
(***************************************************************************)
EXTENDS Integers, Sequences, FiniteSets, TLC

\* Bounds of the model.
NumPos == 3          \* ring positions are 0..NumPos-1 (2^32 in the code)
MaxRing == 4         \* add_node is not called once the ring would grow past this

None == 0
NodeIds == {1, 2, 3}
ReplicaCounts == {1, 2}

VARIABLES
    ring,            \* self.ring: list of (position, node), as a sequence
    nodes,           \* self.nodes: set of member nodes
    replica_count,   \* self.replica_count
    md5,             \* key -> int(md5(key).hexdigest()[:8], 16)
    ret              \* what the last call returned or raised

ringVars == <<ring, nodes, replica_count, md5, ret>>

VARIABLES
    tables,          \* self.hashes[i].table, one SBoxHash table per hash row
    buckets,         \* self.buckets[i][b]: the timestamp last written
    latest,          \* history: per row and run length, the latest add
    last_when,       \* history: the timestamp of the last add
    dret             \* what the last call on the counter or reporter returned

distinctVars == <<tables, buckets, latest, last_when, dret>>

VARIABLES
    hcount,          \* self.count
    hmin,            \* self._min: <<>> for None, <<v>> for the value v
    hmax,            \* self._max, likewise
    hsum,            \* self._sum
    variance,        \* self.variance: the pair (M, S), each a fraction
    sample,          \* self.sample: the reservoir, its values and its count
    stream,          \* history: the values updated since the last clear
    cleared,         \* history: clear() was called after construction
    hret             \* what the last call on the histogram returned

histVars ==
    <<hcount, hmin, hmax, hsum, variance, sample, stream, cleared, hret>>

VARIABLES
    sbox_table,      \* self.table of one SBoxHash
    hash_ret         \* the last two calls of its hash: data and value returned

hashVars == <<sbox_table, hash_ret>>

VARIABLES
    rm,              \* the thread in remove_node: where it is, its locals
    rd               \* the thread in get_node or get_nodes, likewise

raceVars == <<rm, rd>>

\* What an action of one component leaves alone.
NotRing == <<distinctVars, histVars, hashVars, raceVars>>
NotDistinct == <<ringVars, histVars, hashVars, raceVars>>
NotHistogram == <<ringVars, distinctVars, hashVars, raceVars>>
NotHash == <<ringVars, distinctVars, histVars, raceVars>>
NotRace == <<distinctVars, histVars, hashVars>>

ReplicaKey(node, i) == <<node, i>>
ReplicaKeys == {ReplicaKey(n, i) : n \in NodeIds, i \in 0..(replica_count - 1)}
Positions == 0..(NumPos - 1)
PlainKeys == {<<None, p>> : p \in Positions}
Keys == ReplicaKeys \cup PlainKeys

\* Python's tuple comparison of two (position, node) entries.
EntryLess(e1, e2) == e1[1] < e2[1] \/ (e1[1] = e2[1] /\ e1[2] < e2[2])

compute_ring_position(key) == IF key[1] = None THEN key[2] ELSE md5[key]

\* bisect.bisect_left(a, x): the loop of the standard library, 0-based.
RECURSIVE bisect_left_loop(_, _, _, _)
bisect_left_loop(a, x, lo, hi) ==
    IF lo < hi
    THEN LET mid == (lo + hi) \div 2
         IN  IF EntryLess(a[mid + 1], x)
             THEN bisect_left_loop(a, x, mid + 1, hi)
             ELSE bisect_left_loop(a, x, lo, mid)
    ELSE lo

bisect_left(a, x) == bisect_left_loop(a, x, 0, Len(a))

\* bisect.bisect_right(a, x), which bisect.insort uses.
RECURSIVE bisect_right_loop(_, _, _, _)
bisect_right_loop(a, x, lo, hi) ==
    IF lo < hi
    THEN LET mid == (lo + hi) \div 2
         IN  IF EntryLess(x, a[mid + 1])
             THEN bisect_right_loop(a, x, lo, mid)
             ELSE bisect_right_loop(a, x, mid + 1, hi)
    ELSE lo

\* list.insert(lo, x)
ListInsert(a, lo, x) == SubSeq(a, 1, lo) \o <<x>> \o SubSeq(a, lo + 1, Len(a))

\* Mutant of insort: list.append, the entry is put at the end.
insort_append(a, x) == Append(a, x)

\* bisect.insort(a, x)
insort(a, x) == ListInsert(a, bisect_right_loop(a, x, 0, Len(a)), x)

\* The loop of add_node: for i in range(self.replica_count), from i on.
RECURSIVE add_replicas(_, _, _)
add_replicas(r, node, i) ==
    IF i < replica_count
    THEN add_replicas(
             insort(r, <<compute_ring_position(ReplicaKey(node, i)), node>>),
             node, i + 1)
    ELSE r

\* __init__(nodes): self.ring after the loop "for node in nodes:
\* self.add_node(node)" over the sequence `order`, from the empty ring.
RECURSIVE init_ring(_, _)
init_ring(r, order) ==
    IF order = <<>> THEN r
    ELSE init_ring(add_replicas(r, Head(order), 0), Tail(order))

\* Mutant of filter_ring: the filter tests entry[0], the position.
RECURSIVE filter_ring_by_position(_, _)
filter_ring_by_position(r, node) ==
    IF r = <<>> THEN <<>>
    ELSE (IF Head(r)[1] # node THEN <<Head(r)>> ELSE <<>>)
         \o filter_ring_by_position(Tail(r), node)

\* [entry for entry in self.ring if entry[1] != node]
RECURSIVE filter_ring(_, _)
filter_ring(r, node) ==
    IF r = <<>> THEN <<>>
    ELSE (IF Head(r)[2] # node THEN <<Head(r)>> ELSE <<>>)
         \o filter_ring(Tail(r), node)

\* The last call: its name, its node argument (add_node, remove_node), the
\* error it raised, the node get_node returned, the list get_nodes returned,
\* and (history only) how many ring entries remove_node dropped.
NoCall == [op |-> "none", arg |-> None, err |-> "", node |-> None,
           nodes |-> <<>>, dropped |-> 0]
Returned(op, arg, dropped) ==
    [op |-> op, arg |-> arg, err |-> "", node |-> None, nodes |-> <<>>,
     dropped |-> dropped]
Raised(op, e) == [op |-> op, arg |-> None, err |-> e, node |-> None,
                  nodes |-> <<>>, dropped |-> 0]

\* Mutant of get_node: an index past the end is clamped to the last entry
\* instead of wrapping to entry 0.
get_node_clamped(r, key) ==
    IF r = <<>>
    THEN Raised("get_node", "AssertionError")
    ELSE LET position == compute_ring_position(key)
             found == bisect_left(r, <<position, None>>)
             index == IF found >= Len(r) THEN Len(r) - 1 ELSE found
         IN  [op |-> "get_node", arg |-> None, err |-> "",
              node |-> r[index + 1][2], nodes |-> <<>>, dropped |-> 0]

\* get_node(key) on ring r: the value returned or the error raised.
get_node(r, key) ==
    IF r = <<>>
    THEN Raised("get_node", "AssertionError")
    ELSE LET position == compute_ring_position(key)
             index == bisect_left(r, <<position, None>>) % Len(r)
         IN  [op |-> "get_node", arg |-> None, err |-> "",
              node |-> r[index + 1][2], nodes |-> <<>>, dropped |-> 0]

InSeq(x, s) == \E j \in 1..Len(s) : s[j] = x

\* Mutant of get_nodes_loop: every node met is appended, seen or not.
RECURSIVE get_nodes_loop_no_dedup(_, _, _, _, _)
get_nodes_loop_no_dedup(r, members, acc, index, last_index) ==
    IF Len(acc) < Cardinality(members) /\ index # last_index
    THEN get_nodes_loop_no_dedup(r, members, Append(acc, r[index + 1][2]),
                                 (index + 1) % Len(r), last_index)
    ELSE acc

\* The while loop of get_nodes.
RECURSIVE get_nodes_loop(_, _, _, _, _)
get_nodes_loop(r, members, acc, index, last_index) ==
    IF Len(acc) < Cardinality(members) /\ index # last_index
    THEN LET next_node == r[index + 1][2]
         IN  get_nodes_loop(r, members,
                 IF InSeq(next_node, acc) THEN acc ELSE Append(acc, next_node),
                 (index + 1) % Len(r), last_index)
    ELSE acc

\* get_nodes(key) on ring r with member set `members`.
get_nodes(r, members, key) ==
    IF r = <<>>
    THEN Raised("get_nodes", "ZeroDivisionError")
    ELSE LET position == compute_ring_position(key)
             index == bisect_left(r, <<position, None>>) % Len(r)
             last_index == (index - 1) % Len(r)
         IN  [op |-> "get_nodes", arg |-> None, err |-> "", node |-> None,
              nodes |-> get_nodes_loop(r, members, <<>>, index, last_index),
              dropped |-> 0]

RingInit ==
    /\ ring = <<>>
    /\ nodes = {}
    /\ replica_count \in ReplicaCounts
    /\ md5 \in [ReplicaKeys -> Positions]
    /\ ret = NoCall

AddNode(node) ==
    /\ Len(ring) + replica_count <= MaxRing
    /\ nodes' = nodes \cup {node}
    /\ ring' = add_replicas(ring, node, 0)
    /\ ret' = Returned("add_node", node, 0)
    /\ UNCHANGED <<replica_count, md5>>
    /\ UNCHANGED NotRing

RemoveNode(node) ==
    /\ nodes' = nodes \ {node}
    /\ ring' = filter_ring(ring, node)
    /\ ret' = Returned("remove_node", node, Len(ring) - Len(ring'))
    /\ UNCHANGED <<replica_count, md5>>
    /\ UNCHANGED NotRing

GetNode(key) ==
    /\ ret' = get_node(ring, key)
    /\ UNCHANGED <<ring, nodes, replica_count, md5>>
    /\ UNCHANGED NotRing

GetNodes(key) ==
    /\ ret' = get_nodes(ring, nodes, key)
    /\ UNCHANGED <<ring, nodes, replica_count, md5>>
    /\ UNCHANGED NotRing

RingNext ==
    \/ \E node \in NodeIds : AddNode(node)
    \/ \E node \in NodeIds : RemoveNode(node)
    \/ \E key \in Keys : GetNode(key)
    \/ \E key \in Keys : GetNodes(key)

(***************************************************************************)
(* SlidingDistinctCounter and DistinctMetricReporter.                      *)
(*                                                                         *)
(* The hash is computed as the code computes it, on HashBits bits instead  *)
(* of 32 and over an alphabet of NumChars characters instead of 256; an    *)
(* item is the sequence of its character codes.  Every table random.randint*)
(* can draw is an initial state.  The counter has NHashes rows of NBuckets *)
(* buckets (32 x 32 in the reporter).  A timestamp, and a reading of the   *)
(* reporter's wall_time_func, is one of the first NumTimes values of       *)
(* WallTimes, which lie on both sides of the reporter's one minute, one    *)
(* hour and one day windows; the counter is fed timestamps that do not     *)
(* decrease.                                                               *)
(***************************************************************************)
HashBits == 4
NumChars == 1
NHashes == 2
NBuckets == 3

\* Bounds of the model.
MaxItemLen == 2      \* items are strings of at most this many characters
NumTableEntries == 3 \* a table entry is one of this many values
NumTimes == 3        \* how many values of WallTimes the wall clock takes

Modulus == 2 ^ HashBits                 \* 0xFFFFFFFF + 1
Chars == 0..(NumChars - 1)
Rows == 1..NHashes
BucketIds == 0..(NBuckets - 1)

RECURSIVE StringsUpTo(_)
StringsUpTo(n) ==
    IF n = 0 THEN {<<>>}
    ELSE StringsUpTo(n - 1)
         \cup {Append(w, c) : w \in StringsUpTo(n - 1), c \in Chars}
Items == StringsUpTo(MaxItemLen)

\* random.randint(0, 0xFFFFFFFF - 1) at the model's width: the
\* NumTableEntries largest of the values 0..Modulus - 2.
TableEntries == {e \in 0..(Modulus - 2) : e > Modulus - 2 - NumTableEntries}

WallTimes == <<100, 3650, 90000, 90030, 180000>>
Times == {WallTimes[k] : k \in 1..NumTimes}

\* a ^ b on non-negative integers
RECURSIVE BitXor(_, _)
BitXor(a, b) ==
    IF a = 0 THEN b
    ELSE IF b = 0 THEN a
    ELSE ((a + b) % 2) + 2 * BitXor(a \div 2, b \div 2)

\* The loop of SBoxHash.hash over the rest of the data.
RECURSIVE sbox_hash_loop(_, _, _)
sbox_hash_loop(table, data, value) ==
    IF data = <<>> THEN value
    ELSE sbox_hash_loop(table, Tail(data),
                        (BitXor(value, table[Head(data)]) * 3) % Modulus)

\* SBoxHash.hash(data) with the given table.
sbox_hash(table, data) == sbox_hash_loop(table, data, 0)

\* Mutant of zeros_loop: the test of the low bit is left out, so every bit
\* of n is counted.
RECURSIVE zeros_loop_every_bit(_, _, _)
zeros_loop_every_bit(n, count, i) ==
    LET v == n \div (2 ^ i)
    IN  IF v <= 0 THEN count
        ELSE zeros_loop_every_bit(n, count + 1, i + 1)

\* The loop of zeros(n): v = n >> i.
RECURSIVE zeros_loop(_, _, _)
zeros_loop(n, count, i) ==
    LET v == n \div (2 ^ i)
    IN  IF v <= 0 THEN count
        ELSE IF v % 2 = 1 THEN count
        ELSE zeros_loop(n, count + 1, i + 1)

zeros(n) == zeros_loop(n, 0, 0)

Min2(a, b) == IF a <= b THEN a ELSE b
Max2(a, b) == IF a >= b THEN a ELSE b

\* The bucket add writes in a row: min(self.n_buckets - 1, zeros(value)).
bucket_index(value) == Min2(NBuckets - 1, zeros(value))

\* Mutant of counter_add: a bucket keeps the larger timestamp.
counter_add_max(b, when, item) ==
    [i \in Rows |->
        LET j == bucket_index(sbox_hash(tables[i], item))
        IN  [b[i] EXCEPT ![j] = Max2(b[i][j], when)]]

\* self.buckets after add(when, item).
counter_add(b, when, item) ==
    [i \in Rows |->
        [b[i] EXCEPT ![bucket_index(sbox_hash(tables[i], item))] = when]]

\* Mutant of least0_loop: a bucket written at `since` itself still counts.
RECURSIVE least0_loop_at_since(_, _, _, _)
least0_loop_at_since(row, since, b, least0) ==
    IF b >= NBuckets THEN least0
    ELSE IF row[b] < since THEN least0
    ELSE least0_loop_at_since(row, since, b + 1, least0 + 1)

\* The inner loop of distinct: least0 for one row, from bucket b on.
RECURSIVE least0_loop(_, _, _, _)
least0_loop(row, since, b, least0) ==
    IF b >= NBuckets THEN least0
    ELSE IF row[b] <= since THEN least0
    ELSE least0_loop(row, since, b + 1, least0 + 1)

\* The outer loop of distinct: total over the rows from i on.
RECURSIVE total_loop(_, _, _, _)
total_loop(b, since, i, total) ==
    IF i > NHashes THEN total
    ELSE total_loop(b, since, i + 1, total + least0_loop(b[i], since, 0, 0))

\* 2 ** v for v = total / n_hashes, in fixed point with eight decimals:
\* 2 ^ (total div n_hashes) times 2 ^ (r / n_hashes), r the remainder.
\* Python computes it in doubles; no value the model reaches is within
\* 0.1 of an integer after the division, so the integer part is the same.
TwoToFraction == <<100000000, 141421356>>
two_to_the(total) ==
    (2 ^ (total \div NHashes)) * TwoToFraction[(total % NHashes) + 1]

\* 0.77351 in the same fixed point
Phi == 77351000

\* int((2 ** v) / 0.77351)
estimate(total) == two_to_the(total) \div Phi

\* distinct(since) on bucket grid b.
distinct(b, since) == estimate(total_loop(b, since, 1, 0))

\* The windows of count_1min, count_1hour, count_1day, in seconds.
Minute == 60
Hour == 3600
Day == 86400

count(b) == distinct(b, 0)

\* Mutant of count_1min: the window is the day.
count_1min_of_day(b, now) == distinct(b, now - Day)

count_1min(b, now) == distinct(b, now - Minute)
count_1hour(b, now) == distinct(b, now - Hour)
count_1day(b, now) == distinct(b, now - Day)

\* The suffixes of flush, each with its characters' codes, which is what
\* sorted() compares.
Suffixes == {".count", ".count_1min", ".count_1hour", ".count_1day"}
Codes(suffix) ==
    CASE suffix = ".count" -> <<46, 99, 111, 117, 110, 116>>
      [] suffix = ".count_1min" ->
             <<46, 99, 111, 117, 110, 116, 95, 49, 109, 105, 110>>
      [] suffix = ".count_1hour" ->
             <<46, 99, 111, 117, 110, 116, 95, 49, 104, 111, 117, 114>>
      [] suffix = ".count_1day" ->
             <<46, 99, 111, 117, 110, 116, 95, 49, 100, 97, 121>>

\* Python's comparison of two strings, on their codes: s < t.
RECURSIVE CodesLess(_, _)
CodesLess(s, t) ==
    IF t = <<>> THEN FALSE
    ELSE IF s = <<>> THEN TRUE
    ELSE IF Head(s) # Head(t) THEN Head(s) < Head(t)
    ELSE CodesLess(Tail(s), Tail(t))

\* s < t for every two suffixes, computed once.
SuffixLess ==
    [s \in Suffixes |-> {t \in Suffixes : CodesLess(Codes(s), Codes(t))}]

\* sorted(): the items in ascending order of their key, by insertion.
RECURSIVE insert_sorted(_, _)
insert_sorted(sorted, item) ==
    IF sorted = <<>> THEN <<item>>
    ELSE IF Head(sorted)[1] \in SuffixLess[item[1]]
         THEN <<item>> \o sorted
         ELSE <<Head(sorted)>> \o insert_sorted(Tail(sorted), item)

\* Mutant of sorted_items: the items in the order of the dictionary.
unsorted_items(items) == items

RECURSIVE sorted_items(_)
sorted_items(items) ==
    IF items = <<>> THEN <<>>
    ELSE insert_sorted(sorted_items(Tail(items)), Head(items))

\* self.prefix and self.name of the reporter the model follows.
self_prefix == "stats."
self_name == "test"

\* The dictionary items of flush: the value under each suffix.
flush_dict(b, now) ==
    [count |-> count(b),
     count_1min |-> count_1min(b, now),
     count_1hour |-> count_1hour(b, now),
     count_1day |-> count_1day(b, now)]

\* items.iteritems(): the (suffix, value) pairs in the order `order` (a
\* dictionary has no order of its own).
iteritems(items, order) ==
    LET value(suffix) ==
            CASE suffix = ".count" -> items.count
              [] suffix = ".count_1min" -> items.count_1min
              [] suffix = ".count_1hour" -> items.count_1hour
              [] suffix = ".count_1day" -> items.count_1day
    IN  <<<<order[1], value(order[1])>>, <<order[2], value(order[2])>>,
          <<order[3], value(order[3])>>, <<order[4], value(order[4])>>>>

\* flush(interval, timestamp): the list of metrics, from the dictionary.
flush(items, order, timestamp) ==
    LET sorted == sorted_items(iteritems(items, order))
    IN  [j \in 1..Len(sorted) |->
            [name |-> <<self_prefix, self_name, sorted[j][1]>>,
             value |-> sorted[j][2],
             timestamp |-> timestamp]]

\* The orders in which a dictionary of the four suffixes can be iterated.
DictOrders ==
    {o \in [1..4 -> Suffixes] : \A i, j \in 1..4 : o[i] = o[j] => i = j}

\* History: the run of low-order zero bits of a hash value of HashBits
\* bits, counted in the last bucket when it is longer than n_buckets - 1.
TrailingZeroRun(h) ==
    IF h = 0 THEN HashBits
    ELSE CHOOSE k \in 0..HashBits : h % (2 ^ k) = 0 /\ h % (2 ^ (k + 1)) # 0
RunBucket(h) == Min2(NBuckets - 1, TrailingZeroRun(h))

Never == -1
latest_add(l, when, item) ==
    [i \in Rows |->
        LET b == RunBucket(sbox_hash(tables[i], item))
        IN  [l[i] EXCEPT ![b] = Max2(l[i][b], when)]]

\* The last call: its name, the value distinct returned, the list flush
\* returned, and (history) the hash values of an add, the argument of add
\* and distinct, the wall clock reading and the timestamp argument of flush.
DNoCall == [op |-> "none", value |-> 0, metrics |-> <<>>, hashed |-> <<>>,
            arg |-> 0, stamp |-> 0]

DistinctInit ==
    /\ tables \in [Rows -> [Chars -> TableEntries]]
    /\ buckets = [i \in Rows |-> [b \in BucketIds |-> 0]]
    /\ latest = [i \in Rows |-> [b \in BucketIds |-> Never]]
    /\ last_when = 0
    /\ dret = DNoCall

\* SlidingDistinctCounter.add(when, item), called with timestamps that do
\* not decrease.
Add(when, item) ==
    /\ when >= last_when
    /\ buckets' = counter_add(buckets, when, item)
    /\ latest' = latest_add(latest, when, item)
    /\ last_when' = when
    /\ dret' = [DNoCall EXCEPT !.op = "add", !.arg = when,
                    !.hashed = [i \in Rows |-> sbox_hash(tables[i], item)]]
    /\ UNCHANGED tables
    /\ UNCHANGED NotDistinct

\* DistinctMetricReporter.update(item): self.counter.add(now, item) for the
\* reading now of self.wall_time_func.
Update(item) == \E now \in Times : Add(now, item)

\* SlidingDistinctCounter.distinct(since)
Distinct(since) ==
    /\ dret' = [DNoCall EXCEPT !.op = "distinct", !.arg = since,
                    !.value = distinct(buckets, since)]
    /\ UNCHANGED <<tables, buckets, latest, last_when>>
    /\ UNCHANGED NotDistinct

\* DistinctMetricReporter.flush(interval, timestamp), for the reading now
\* of self.wall_time_func, which is not behind the last update.
Flush(timestamp) ==
    /\ \E now \in Times :
           /\ now >= last_when
           /\ LET items == flush_dict(buckets, now)
              IN  \E order \in DictOrders :
                      dret' = [DNoCall EXCEPT !.op = "flush", !.arg = now,
                                !.stamp = timestamp,
                                !.metrics = flush(items, order, timestamp)]
    /\ UNCHANGED <<tables, buckets, latest, last_when>>
    /\ UNCHANGED NotDistinct

\* The timestamp argument of flush: what the caller passes, which need
\* not be a reading of the wall clock.
FlushStamps == {7, 90000}

DistinctNext ==
    \/ \E item \in Items : Update(item)
    \/ \E since \in Times \cup {0} : Distinct(since)
    \/ \E timestamp \in FlushStamps : Flush(timestamp)

\* SlidingDistinctCounter.add(when, item) with any timestamp, smaller than
\* an earlier one or not. The record of the call keeps (history) whether a
\* bucket it wrote held a larger timestamp before: 1 if so, else 0.
AddAnyOrder(when, item) ==
    /\ buckets' = counter_add(buckets, when, item)
    /\ dret' = [DNoCall EXCEPT !.op = "add", !.arg = when,
                    !.value = IF \E i \in Rows, b \in BucketIds :
                                     /\ buckets'[i][b] # buckets[i][b]
                                     /\ buckets[i][b] > when
                              THEN 1 ELSE 0]
    /\ UNCHANGED <<tables, latest, last_when>>
    /\ UNCHANGED NotDistinct

\* A count query of the reporter: its name, the reading now it was given
\* (0 for count(), which takes none) and the value it returns.
CountQuery(op, now, value) ==
    /\ dret' = [DNoCall EXCEPT !.op = op, !.arg = now, !.value = value]
    /\ UNCHANGED <<tables, buckets, latest, last_when>>
    /\ UNCHANGED NotDistinct

Count == CountQuery("count", 0, count(buckets))
Count1Min(now) == CountQuery("count_1min", now, count_1min(buckets, now))
Count1Hour(now) == CountQuery("count_1hour", now, count_1hour(buckets, now))
Count1Day(now) == CountQuery("count_1day", now, count_1day(buckets, now))

\* The counter and the count queries of the reporter, the timestamps of add
\* in any order.
CounterNext ==
    \/ \E when \in Times, item \in Items : AddAnyOrder(when, item)
    \/ \E since \in Times \cup {0} : Distinct(since)
    \/ Count
    \/ \E now \in Times : Count1Min(now)
    \/ \E now \in Times : Count1Hour(now)
    \/ \E now \in Times : Count1Day(now)

(***************************************************************************)
(* HistogramMetricReporter (src/txstatsd/metrics/histogrammetric.py) over  *)
(* a UniformSample.  The reservoir classes (txstatsd/stats) are not part   *)
(* of the sources at hand; the reservoir follows its description: every    *)
(* value is kept until the capacity is reached, and from then on a new     *)
(* value is dropped or takes the place of any one slot.  The capacity is   *)
(* Capacity (1028 in using_uniform_sample).                                *)
(*                                                                         *)
(* The values updated are integers.  A float is a fraction <<n, d>> in     *)
(* lowest terms with d > 0: the running mean of at most MaxUpdates small   *)
(* integers equals -1.0 in double arithmetic exactly when the fraction is  *)
(* -1, and the bin and the percentile positions the model reaches are the  *)
(* floors of the exact quotients.  A percentile p is given in thousandths  *)
(* and so is a score of percentiles.  The square root of std_dev is not    *)
(* computed: std_dev is represented by its radicand.                       *)
(***************************************************************************)
Capacity == 2
Thousand == 1000

\* Bound of the histogram model.
MaxUpdates == 3      \* update is not called more often between two clears

HistValues == {-2, -1, 0, 3}
PercentileArgs == {0, 250, 500, 750, 999, 1000}

Abs(a) == IF a < 0 THEN -a ELSE a

RECURSIVE GCD(_, _)
GCD(a, b) == IF b = 0 THEN a ELSE GCD(b, a % b)

\* The fraction n / d in lowest terms, d # 0.
Frac(n, d) ==
    LET g == GCD(Abs(n), Abs(d))
        sign == IF d < 0 THEN -1 ELSE 1
    IN  <<(sign * n) \div g, (sign * d) \div g>>

float(v) == <<v, 1>>
FracAdd(x, y) == Frac(x[1] * y[2] + y[1] * x[2], x[2] * y[2])
FracSub(x, y) == Frac(x[1] * y[2] - y[1] * x[2], x[2] * y[2])
FracMul(x, y) == Frac(x[1] * y[1], x[2] * y[2])
FracDiv(x, k) == Frac(x[1], x[2] * k)
FracLeq(x, y) == x[1] * y[2] <= y[1] * x[2]

\* self._min and self._max: None, or a value.
NoValue == <<>>
Value(v) == <<v>>

\* UniformSample: clear(), update(value) with every outcome of its random
\* choice, get_values().
sample_clear == [values |-> <<>>, count |-> 0]
sample_update(smp, value) ==
    LET n == smp.count + 1
    IN  IF n <= Capacity
        THEN {[values |-> Append(smp.values, value), count |-> n]}
        ELSE {[values |-> smp.values, count |-> n]} \cup
             {[values |-> [smp.values EXCEPT ![r] = value], count |-> n] :
                 r \in 1..Capacity}
get_values(smp) == smp.values

\* min() and max()
min(n, m) == IF n > 0 THEN float(m[1]) ELSE float(0)
max(n, m) == IF n > 0 THEN float(m[1]) ELSE float(0)

\* mean()
mean(n, total) == IF n > 0 THEN Frac(total, n) ELSE float(0)

\* get_variance()
get_variance(n, var) == IF n <= 1 THEN float(0) ELSE FracDiv(var[2], n - 1)

\* std_dev(): the radicand of its square root.
std_dev(n, var) == IF n > 0 THEN get_variance(n, var) ELSE float(0)

\* Mutant of set_max: the last value is the maximum.
set_max_latest(n, m, potential_max) == Value(potential_max)

\* set_max(potential_max), self.count being n
set_max(n, m, potential_max) ==
    IF m = NoValue THEN Value(potential_max)
    ELSE LET cur == max(n, m)
         IN  Value(IF cur[1] >= potential_max THEN cur[1] ELSE potential_max)

\* Mutant of set_min: the first value stays the minimum.
set_min_keep_first(n, m, potential_min) ==
    IF m = NoValue THEN Value(potential_min) ELSE m

\* set_min(potential_min), self.count being n
set_min(n, m, potential_min) ==
    IF m = NoValue THEN Value(potential_min)
    ELSE LET cur == min(n, m)
         IN  Value(IF cur[1] <= potential_min THEN cur[1] ELSE potential_min)

\* Mutant of update_variance: S grows by (value - old_m)(new_m - value).
update_variance_swapped(n, old_values, value) ==
    IF old_values[1] = float(-1)
    THEN <<float(value), float(0)>>
    ELSE LET old_m == old_values[1]
             old_s == old_values[2]
             new_m == FracAdd(old_m, FracDiv(FracSub(float(value), old_m), n))
             new_s == FracAdd(old_s, FracMul(FracSub(float(value), old_m),
                                             FracSub(new_m, float(value))))
         IN  <<new_m, new_s>>

\* update_variance(value), self.count being n
update_variance(n, old_values, value) ==
    IF old_values[1] = float(-1)
    THEN <<float(value), float(0)>>
    ELSE LET old_m == old_values[1]
             old_s == old_values[2]
             new_m == FracAdd(old_m, FracDiv(FracSub(float(value), old_m), n))
             new_s == FracAdd(old_s, FracMul(FracSub(float(value), old_m),
                                             FracSub(float(value), new_m)))
         IN  <<new_m, new_s>>

\* values.sort(), by insertion.
RECURSIVE insert_value(_, _)
insert_value(sorted, v) ==
    IF sorted = <<>> THEN <<v>>
    ELSE IF v < Head(sorted) THEN <<v>> \o sorted
    ELSE <<Head(sorted)>> \o insert_value(Tail(sorted), v)

RECURSIVE sort(_)
sort(values) ==
    IF values = <<>> THEN <<>>
    ELSE insert_value(sort(Tail(values)), Head(values))

\* What a query returns: a float, a list of scores, or the exception raised.
HReturned(op, arg, value, scores) ==
    [op |-> op, arg |-> arg, value |-> value, scores |-> scores, err |-> ""]
HRaised(op, arg, err) ==
    [op |-> op, arg |-> arg, value |-> float(0), scores |-> <<>>, err |-> err]
HNoCall == HReturned("none", <<>>, float(0), <<>>)

\* Mutant of percentile: the largest value is taken only for pos > len.
percentile_past_end(values, p) ==
    LET pos == p * (Len(values) + 1)
    IN  IF pos < Thousand THEN [err |-> "", score |-> Thousand * values[1]]
        ELSE IF pos > Thousand * Len(values)
        THEN [err |-> "", score |-> Thousand * values[Len(values)]]
        ELSE IF (pos \div Thousand) + 1 > Len(values)
        THEN [err |-> "IndexError", score |-> 0]
        ELSE LET lower == values[pos \div Thousand]
                 upper == values[(pos \div Thousand) + 1]
             IN  [err |-> "",
                  score |-> Thousand * lower + (pos % Thousand) * (upper - lower)]

\* The body of the loop of percentiles for one p, on the sorted values:
\* pos is in thousandths, int(pos) is pos \div Thousand, and the lists are
\* 0-based in the code.
percentile(values, p) ==
    LET pos == p * (Len(values) + 1)
    IN  IF pos < Thousand THEN [err |-> "", score |-> Thousand * values[1]]
        ELSE IF pos >= Thousand * Len(values)
        THEN [err |-> "", score |-> Thousand * values[Len(values)]]
        ELSE IF (pos \div Thousand) + 1 > Len(values)
        THEN [err |-> "IndexError", score |-> 0]
        ELSE LET lower == values[pos \div Thousand]
                 upper == values[(pos \div Thousand) + 1]
             IN  [err |-> "",
                  score |-> Thousand * lower + (pos % Thousand) * (upper - lower)]

\* percentiles(*ps), self.count being n
percentiles(n, smp, ps) ==
    IF n > 0
    THEN LET values == sort(get_values(smp))
             each == [i \in 1..Len(ps) |-> percentile(values, ps[i])]
         IN  IF \E i \in 1..Len(ps) : each[i].err # ""
             THEN HRaised("percentiles", ps, "IndexError")
             ELSE HReturned("percentiles", ps, float(0),
                            [i \in 1..Len(ps) |-> each[i].score])
    ELSE HReturned("percentiles", ps, float(0), [i \in 1..Len(ps) |-> 0])

\* int(math.ceil(1 + math.log(n, 2))): 1 + the least k with 2 ^ k >= n.
RECURSIVE ceil_log2(_, _)
ceil_log2(n, k) == IF 2 ^ k >= n THEN k ELSE ceil_log2(n, k + 1)
n_bins(n) == 1 + ceil_log2(n, 0)

SeqMax(values) ==
    CHOOSE v \in {values[j] : j \in 1..Len(values)} :
        \A j \in 1..Len(values) : values[j] <= v
SeqMin(values) ==
    CHOOSE v \in {values[j] : j \in 1..Len(values)} :
        \A j \in 1..Len(values) : values[j] >= v

\* The loop of histogram: the scores after the values from j on.
RECURSIVE histogram_loop(_, _, _, _, _, _)
histogram_loop(values, j, min_value, value_range, bins, scores) ==
    IF j > Len(values) THEN scores
    ELSE LET pos0 == ((values[j] - min_value) * bins) \div value_range
             pos == IF pos0 = bins THEN pos0 - 1 ELSE pos0
         IN  histogram_loop(values, j + 1, min_value, value_range, bins,
                            [scores EXCEPT ![pos + 1] = @ + 1])

\* Mutant of empty_histogram: a histogram of no bucket.
no_histogram == <<>>

\* [0.0] * 10
empty_histogram == [j \in 1..10 |-> 0]

\* histogram(), self.count being n
histogram(n, smp) ==
    IF ~(n > 0)
    THEN HReturned("histogram", <<>>, float(0), empty_histogram)
    ELSE LET bins == n_bins(n)
             values == get_values(smp)
             max_value == SeqMax(values)
             min_value == SeqMin(values)
             value_range == max_value - min_value
         IN  IF value_range = 0
             THEN HRaised("histogram", <<>>, "ZeroDivisionError")
             ELSE HReturned("histogram", <<>>, float(0),
                      histogram_loop(values, 1, min_value, value_range, bins,
                                     [j \in 1..bins |-> 0]))

\* The values of the dictionary of report, in the order of the source:
\* .min, .max, .mean, .stddev and the six percentiles.
report_values(n, mn, mx, total, var, smp) ==
    LET ps == percentiles(n, smp, <<500, 750, 950, 980, 990, 999>>)
    IN  <<min(n, mn), max(n, mx), mean(n, total), std_dev(n, var)>>
        \o ps.scores

\* report(timestamp): the loop is over items.itervalues(), so each element
\* is one value of the dictionary, a number, and unpacking it into
\* (item, value) raises TypeError on the first element.
report(n, mn, mx, total, var, smp, timestamp) ==
    LET values == report_values(n, mn, mx, total, var, smp)
    IN  IF Len(values) > 0
        THEN HRaised("report", <<timestamp>>, "TypeError")
        ELSE HReturned("report", <<timestamp>>, float(0), <<>>)

\* The timestamp argument of report.
ReportStamps == {7}

\* __init__, which ends with clear()
HistogramInit ==
    /\ hcount = 0
    /\ hmin = NoValue
    /\ hmax = NoValue
    /\ hsum = 0
    /\ variance = <<float(-1), float(0)>>
    /\ sample = sample_clear
    /\ stream = <<>>
    /\ cleared = FALSE
    /\ hret = HNoCall

\* Mutant of HClear: self.sample.clear() is left out.
HClearKeepsSample ==
    /\ sample' = sample
    /\ hcount' = 0
    /\ hmax' = NoValue
    /\ hmin' = NoValue
    /\ hsum' = 0
    /\ variance' = <<float(-1), float(0)>>
    /\ stream' = <<>>
    /\ cleared' = TRUE
    /\ hret' = HReturned("clear", <<>>, float(0), <<>>)
    /\ UNCHANGED NotHistogram

\* clear()
HClear ==
    /\ sample' = sample_clear
    /\ hcount' = 0
    /\ hmax' = NoValue
    /\ hmin' = NoValue
    /\ hsum' = 0
    /\ variance' = <<float(-1), float(0)>>
    /\ stream' = <<>>
    /\ cleared' = TRUE
    /\ hret' = HReturned("clear", <<>>, float(0), <<>>)
    /\ UNCHANGED NotHistogram

\* update(value)
HUpdate(value) ==
    /\ Len(stream) < MaxUpdates
    /\ hcount' = hcount + 1
    /\ sample' \in sample_update(sample, value)
    /\ hmax' = set_max(hcount', hmax, value)
    /\ hmin' = set_min(hcount', hmin, value)
    /\ hsum' = hsum + value
    /\ variance' = update_variance(hcount', variance, value)
    /\ stream' = Append(stream, value)
    /\ hret' = HReturned("update", <<value>>, float(0), <<>>)
    /\ UNCHANGED cleared
    /\ UNCHANGED NotHistogram

HQuery(result) ==
    /\ hret' = result
    /\ UNCHANGED <<hcount, hmin, hmax, hsum, variance, sample, stream, cleared>>
    /\ UNCHANGED NotHistogram

HMin == HQuery(HReturned("min", <<>>, min(hcount, hmin), <<>>))
HMax == HQuery(HReturned("max", <<>>, max(hcount, hmax), <<>>))
HMean == HQuery(HReturned("mean", <<>>, mean(hcount, hsum), <<>>))
HStdDev == HQuery(HReturned("std_dev", <<>>, std_dev(hcount, variance), <<>>))
HPercentiles(ps) == HQuery(percentiles(hcount, sample, ps))
HHistogram == HQuery(histogram(hcount, sample))
HReport(timestamp) ==
    HQuery(report(hcount, hmin, hmax, hsum, variance, sample, timestamp))

HistogramNext ==
    \/ HClear
    \/ \E value \in HistValues : HUpdate(value)
    \/ HMin
    \/ HMax
    \/ HMean
    \/ HStdDev
    \/ \E p, q \in PercentileArgs : HPercentiles(<<p, q>>)
    \/ HHistogram
    \/ \E timestamp \in ReportStamps : HReport(timestamp)

(***************************************************************************)
(* One SBoxHash and the calls of its hash.                                 *)
(***************************************************************************)
NumSBoxChars == 2
SBoxChars == 0..(NumSBoxChars - 1)

\* The data hashed: the empty string, every single character, every pair.
SBoxData ==
    {<<>>} \cup {<<c>> : c \in SBoxChars}
           \cup {<<c, d>> : c \in SBoxChars, d \in SBoxChars}

\* SBoxHash.__init__: every entry is random.randint(0, 0xFFFFFFFF - 1),
\* drawn on its own.
HashInit ==
    /\ sbox_table \in [SBoxChars -> 0..(Modulus - 2)]
    /\ hash_ret = <<>>

\* p.hash(data) on the one SBoxHash p; the call before it is kept.
Hash(data) ==
    /\ hash_ret' = (IF hash_ret = <<>> THEN <<>>
                    ELSE <<hash_ret[Len(hash_ret)]>>)
                   \o <<[data |-> data, value |-> sbox_hash(sbox_table, data)]>>
    /\ UNCHANGED sbox_table
    /\ UNCHANGED NotHash

HashNext == \E data \in SBoxData : Hash(data)

(***************************************************************************)
(* remove_node in one thread and get_node or get_nodes in another, on one  *)
(* ring without a lock. A thread is preempted between two statements, and  *)
(* inside the list comprehension of remove_node between two entries.       *)
(***************************************************************************)

\* The remover before its call.
RmIdle == [pc |-> "idle", node |-> None, iter |-> 0, list |-> <<>>,
           before |-> 0]

\* The reader before its call: the call, the line it is about to run, its
\* locals key, index, last_index and nodes, the node returned, the error
\* raised, and (history) of its last read of self.ring: how many entries of
\* the removed node the ring held, and whether the comprehension had by
\* then passed some but not all of them.
RdIdle == [op |-> "none", pc |-> "idle", key |-> <<None, 0>>, index |-> 0,
           last_index |-> 0, nodes |-> <<>>, node |-> None, err |-> "",
           seen |-> 0, mid |-> FALSE]

\* How many entries of the removed node the comprehension has passed.
Passed == Cardinality({j \in 1..rm.iter : j <= Len(ring) /\ ring[j][2] = rm.node})

\* The reader reads self.ring: what the history keeps of it.
ReadRing(r) ==
    [r EXCEPT !.seen = Cardinality({j \in 1..Len(ring) : ring[j][2] = rm.node}),
              !.mid = /\ rm.pc = "comprehension"
                      /\ 0 < Passed
                      /\ Passed < rm.before]

\* The reader's call ends with the error e.
RdRaise(r, e) == [r EXCEPT !.pc = "done", !.err = e]

\* The members of the ring the two threads share.
RaceMembers == {1, 2}

\* A ring the constructor built from two nodes with two replicas each.
RaceInit ==
    /\ replica_count = 2
    /\ md5 \in {f \in [ReplicaKeys -> Positions] :
                   \A k \in ReplicaKeys : k[1] \notin RaceMembers => f[k] = 0}
    /\ nodes = RaceMembers
    /\ ring = init_ring(<<>>, <<1, 2>>)
    /\ ret = NoCall
    /\ rm = RmIdle
    /\ rd = RdIdle

\* remove_node(node), line 49: self.nodes.discard(node). The evaluation of
\* the list comprehension of line 50 starts.
RaceDiscard(node) ==
    /\ rm.pc = "idle"
    /\ nodes' = nodes \ {node}
    /\ rm' = [pc |-> "comprehension", node |-> node, iter |-> 0,
              list |-> <<>>,
              before |-> Cardinality({j \in 1..Len(ring) : ring[j][2] = node})]
    /\ UNCHANGED <<ring, replica_count, md5, ret, rd>>
    /\ UNCHANGED NotRace

\* Mutant of RaceFilterStep: the entry is deleted from self.ring in place.
RaceFilterStepInPlace ==
    /\ rm.pc = "comprehension"
    /\ rm.iter < Len(ring)
    /\ LET entry == ring[rm.iter + 1]
       IN  IF entry[2] # rm.node
           THEN /\ rm' = [rm EXCEPT !.iter = rm.iter + 1,
                                    !.list = Append(rm.list, entry)]
                /\ ring' = ring
           ELSE /\ rm' = rm
                /\ ring' = SubSeq(ring, 1, rm.iter)
                               \o SubSeq(ring, rm.iter + 2, Len(ring))
    /\ UNCHANGED <<nodes, replica_count, md5, ret, rd>>
    /\ UNCHANGED NotRace

\* Line 50, one entry of "for entry in self.ring if entry[1] != node": the
\* entry is appended to the list being built, or skipped. self.ring is not
\* written.
RaceFilterStep ==
    /\ rm.pc = "comprehension"
    /\ rm.iter < Len(ring)
    /\ LET entry == ring[rm.iter + 1]
       IN  rm' = [rm EXCEPT !.iter = rm.iter + 1,
                            !.list = IF entry[2] # rm.node
                                     THEN Append(rm.list, entry)
                                     ELSE rm.list]
    /\ UNCHANGED <<ring, nodes, replica_count, md5, ret, rd>>
    /\ UNCHANGED NotRace

\* Line 50, the assignment: self.ring is bound to the list built.
RaceAssign ==
    /\ rm.pc = "comprehension"
    /\ rm.iter >= Len(ring)
    /\ ring' = rm.list
    /\ rm' = [rm EXCEPT !.pc = "done"]
    /\ UNCHANGED <<nodes, replica_count, md5, ret, rd>>
    /\ UNCHANGED NotRace

\* What a step of the reader leaves alone.
ReaderKeeps ==
    /\ UNCHANGED <<ring, nodes, replica_count, md5, ret, rm>>
    /\ UNCHANGED NotRace

\* get_node(key), lines 53-55: assert self.ring; position; search_entry.
RaceGetNodeAssert(key) ==
    /\ rd.pc \in {"idle", "done"}
    /\ LET r == ReadRing([RdIdle EXCEPT !.op = "get_node", !.key = key])
       IN  rd' = IF ring = <<>> THEN RdRaise(r, "AssertionError")
                 ELSE [r EXCEPT !.pc = "56"]
    /\ ReaderKeeps

\* get_node, line 56:
\* index = bisect.bisect_left(self.ring, search_entry) % len(self.ring)
RaceGetNodeIndex ==
    /\ rd.op = "get_node" /\ rd.pc = "56"
    /\ LET r == ReadRing(rd)
           position == compute_ring_position(rd.key)
       IN  rd' = IF ring = <<>> THEN RdRaise(r, "ZeroDivisionError")
                 ELSE [r EXCEPT !.pc = "57",
                           !.index = bisect_left(ring, <<position, None>>)
                                         % Len(ring)]
    /\ ReaderKeeps

\* get_node, lines 57-58: entry = self.ring[index]; return entry[1]
RaceGetNodeEntry ==
    /\ rd.op = "get_node" /\ rd.pc = "57"
    /\ LET r == ReadRing(rd)
       IN  rd' = IF rd.index >= Len(ring) THEN RdRaise(r, "IndexError")
                 ELSE [r EXCEPT !.pc = "done", !.node = ring[rd.index + 1][2]]
    /\ ReaderKeeps

\* get_nodes(key), lines 61-64: nodes = []; position; search_entry; index.
RaceGetNodesIndex(key) ==
    /\ rd.pc \in {"idle", "done"}
    /\ LET r == ReadRing([RdIdle EXCEPT !.op = "get_nodes", !.key = key])
           position == compute_ring_position(key)
       IN  rd' = IF ring = <<>> THEN RdRaise(r, "ZeroDivisionError")
                 ELSE [r EXCEPT !.pc = "65",
                           !.index = bisect_left(ring, <<position, None>>)
                                         % Len(ring)]
    /\ ReaderKeeps

\* get_nodes, line 65: last_index = (index - 1) % len(self.ring)
RaceGetNodesLastIndex ==
    /\ rd.op = "get_nodes" /\ rd.pc = "65"
    /\ LET r == ReadRing(rd)
       IN  rd' = IF ring = <<>> THEN RdRaise(r, "ZeroDivisionError")
                 ELSE [r EXCEPT !.pc = "66",
                           !.last_index = (rd.index - 1) % Len(ring)]
    /\ ReaderKeeps

\* get_nodes, line 66: the test of the while loop, which reads self.nodes;
\* line 72, return nodes, when it fails.
RaceGetNodesWhile ==
    /\ rd.op = "get_nodes" /\ rd.pc = "66"
    /\ rd' = IF Len(rd.nodes) < Cardinality(nodes)
                  /\ rd.index # rd.last_index
             THEN [rd EXCEPT !.pc = "67"]
             ELSE [rd EXCEPT !.pc = "done"]
    /\ ReaderKeeps

\* get_nodes, lines 67-70: next_entry = self.ring[index]; the node is
\* appended to nodes if it is not in it.
RaceGetNodesEntry ==
    /\ rd.op = "get_nodes" /\ rd.pc = "67"
    /\ LET r == ReadRing(rd)
       IN  rd' = IF rd.index >= Len(ring) THEN RdRaise(r, "IndexError")
                 ELSE LET next_node == ring[rd.index + 1][2]
                      IN  [r EXCEPT !.pc = "71",
                               !.nodes = IF InSeq(next_node, rd.nodes)
                                         THEN rd.nodes
                                         ELSE Append(rd.nodes, next_node)]
    /\ ReaderKeeps

\* get_nodes, line 71: index = (index + 1) % len(self.ring)
RaceGetNodesAdvance ==
    /\ rd.op = "get_nodes" /\ rd.pc = "71"
    /\ LET r == ReadRing(rd)
       IN  rd' = IF ring = <<>> THEN RdRaise(r, "ZeroDivisionError")
                 ELSE [r EXCEPT !.pc = "66",
                           !.index = (rd.index + 1) % Len(ring)]
    /\ ReaderKeeps

RaceNext ==
    \/ \E node \in RaceMembers : RaceDiscard(node)
    \/ RaceFilterStep
    \/ RaceAssign
    \/ \E key \in PlainKeys : RaceGetNodeAssert(key)
    \/ RaceGetNodeIndex
    \/ RaceGetNodeEntry
    \/ \E key \in PlainKeys : RaceGetNodesIndex(key)
    \/ RaceGetNodesLastIndex
    \/ RaceGetNodesWhile
    \/ RaceGetNodesEntry
    \/ RaceGetNodesAdvance

(***************************************************************************)
(* The specifications.                                                     *)
(***************************************************************************)
RingParked ==
    /\ ring = <<>> /\ nodes = {} /\ replica_count = 1
    /\ md5 = <<>> /\ ret = NoCall

DistinctParked ==
    /\ tables = <<>> /\ buckets = <<>> /\ latest = <<>>
    /\ last_when = 0 /\ dret = DNoCall

HistogramParked ==
    /\ hcount = 0 /\ hmin = NoValue /\ hmax = NoValue /\ hsum = 0
    /\ variance = <<>> /\ sample = <<>> /\ stream = <<>>
    /\ cleared = FALSE /\ hret = HNoCall

HashParked == sbox_table = <<>> /\ hash_ret = <<>>

RaceParked == rm = RmIdle /\ rd = RdIdle

vars == <<ringVars, distinctVars, histVars, hashVars, raceVars>>

RingSpecInit ==
    RingInit /\ DistinctParked /\ HistogramParked /\ HashParked /\ RaceParked
RingSpec == RingSpecInit /\ [][RingNext]_vars

DistinctSpecInit ==
    DistinctInit /\ RingParked /\ HistogramParked /\ HashParked /\ RaceParked
DistinctSpec == DistinctSpecInit /\ [][DistinctNext]_vars

CounterSpecInit ==
    DistinctInit /\ RingParked /\ HistogramParked /\ HashParked /\ RaceParked
CounterSpec == CounterSpecInit /\ [][CounterNext]_vars

HistogramSpecInit ==
    HistogramInit /\ RingParked /\ DistinctParked /\ HashParked /\ RaceParked
HistogramSpec == HistogramSpecInit /\ [][HistogramNext]_vars

HashSpecInit ==
    HashInit /\ RingParked /\ DistinctParked /\ HistogramParked /\ RaceParked
HashSpec == HashSpecInit /\ [][HashNext]_vars

RaceSpecInit ==
    RaceInit /\ DistinctParked /\ HistogramParked /\ HashParked
RaceSpec == RaceSpecInit /\ [][RaceNext]_vars

(***************************************************************************)
(* Definitions the properties share.                                       *)
(***************************************************************************)

\* The node of the first entry of r, in ring order, whose position is >= p;
\* the node of the entry at index 0 when there is none.
FirstAtOrAfter(r, p) ==
    IF \E j \in 1..Len(r) : r[j][1] >= p
    THEN LET j == CHOOSE j \in 1..Len(r) :
                      /\ r[j][1] >= p
                      /\ \A i \in 1..(j - 1) : r[i][1] < p
         IN  r[j][2]
    ELSE r[1][2]

\* How many entries of r belong to node.
EntriesOf(r, node) == Cardinality({j \in 1..Len(r) : r[j][2] = node})

\* The ring before the last call, when that call was a remove_node that
\* dropped replica_count entries: the entries of ret.arg put back.
BeforeRemove == add_replicas(ring, ret.arg, 0)

NoDuplicates(s) == \A i, j \in 1..Len(s) : s[i] = s[j] => i = j
Elements(s) == {s[j] : j \in 1..Len(s)}

\* 0-based index at which the walk of get_nodes(key) starts on r.
StartIndex(r, key) ==
    bisect_left(r, <<compute_ring_position(key), None>>) % Len(r)

(***************************************************************************)
(* C1: on every non-empty ring reachable by add_node/remove_node and for   *)
(* every key k, get_node(k) returns the node of the first ring entry whose *)
(* position is >= hash32(k), and the node of the entry at index 0 when no  *)
(* entry has such a position.                                              *)
(***************************************************************************)
C1_GetNodeFirstAtOrAfter ==
    /\ ring # <<>> =>
         \A k \in Keys :
             /\ get_node(ring, k).err = ""
             /\ get_node(ring, k).node =
                    FirstAtOrAfter(ring, compute_ring_position(k))
    /\ (ret.op = "get_node" /\ ret.err = "") =>
         \E k \in Keys :
             ret.node = FirstAtOrAfter(ring, compute_ring_position(k))

\* get_node has returned the node of entry 0 by wrapping around a ring of
\* three nodes, and some other key is served by a later entry.
C1_Witness ==
    /\ ret.op = "get_node" /\ ret.err = ""
    /\ Cardinality(nodes) = 3
    /\ ring[1][2] # ring[Len(ring)][2]
    /\ \E k \in Keys :
           /\ \A j \in 1..Len(ring) : ring[j][1] < compute_ring_position(k)
           /\ ret.node = ring[1][2]
    /\ \E k \in Keys : get_node(ring, k).node # ring[1][2]

(***************************************************************************)
(* C2: minimal remapping on removal.  When remove_node(x) is called on a   *)
(* ring with at least two members, x one of them, every key that did not   *)
(* map to x maps to the same node afterwards.                              *)
(***************************************************************************)
C2_RemoveKeepsOtherKeys ==
    [][\A x \in NodeIds :
          (RemoveNode(x) /\ x \in nodes /\ Cardinality(nodes) >= 2) =>
              \A k \in Keys :
                  get_node(ring, k).node # x =>
                      /\ get_node(ring', k).err = ""
                      /\ get_node(ring', k).node = get_node(ring, k).node
      ]_ringVars

\* remove_node has removed a node that served some keys and not others, and
\* members remain.
C2_Witness ==
    /\ ret.op = "remove_node" /\ ret.dropped = replica_count
    /\ Cardinality(nodes) >= 2
    /\ \E k \in Keys : get_node(BeforeRemove, k).node = ret.arg
    /\ \E k \in Keys : get_node(BeforeRemove, k).node # ret.arg

(***************************************************************************)
(* C3: minimal remapping on addition.  When add_node(y) is called on a     *)
(* non-empty ring of which y is no member, every key maps afterwards to y  *)
(* or to the node it mapped to before.                                     *)
(***************************************************************************)
C3_AddMovesKeysOnlyToNewNode ==
    [][\A y \in NodeIds :
          (AddNode(y) /\ y \notin nodes /\ ring # <<>>) =>
              \A k \in Keys :
                  get_node(ring', k).node \in {y, get_node(ring, k).node}
      ]_ringVars

\* add_node has added a third node, which took over some key, while another
\* key stays with an older node.
C3_Witness ==
    /\ ret.op = "add_node"
    /\ Cardinality(nodes) = 3
    /\ EntriesOf(ring, ret.arg) = replica_count
    /\ \E k \in Keys :
           /\ get_node(ring, k).node = ret.arg
           /\ get_node(filter_ring(ring, ret.arg), k).node # ret.arg
    /\ \E k \in Keys : get_node(ring, k).node # ret.arg

(***************************************************************************)
(* C4: in every state reachable by add_node and remove_node calls, calls   *)
(* naming a node that is already a member included, the ring length is     *)
(* |nodes| x replica_count.                                                *)
(***************************************************************************)
C4_RingLengthIsMembersTimesReplicas ==
    Len(ring) = Cardinality(nodes) * replica_count

(***************************************************************************)
(* C5: in every reachable state the ring entries are in non-decreasing     *)
(* lexicographic order of (position, node).                                *)
(***************************************************************************)
C5_RingSorted ==
    \A j \in 1..(Len(ring) - 1) : ~EntryLess(ring[j + 1], ring[j])

\* add_node has put an entry strictly between two older ones, and two nodes
\* share a position.
C5_Witness ==
    /\ ret.op = "add_node"
    /\ Len(ring) >= 3
    /\ \E j \in 2..(Len(ring) - 1) :
           /\ ring[j][2] = ret.arg
           /\ ring[j - 1][2] # ret.arg
           /\ ring[j + 1][2] # ret.arg
    /\ \E i, j \in 1..Len(ring) :
           ring[i][1] = ring[j][1] /\ ring[i][2] # ring[j][2]

(***************************************************************************)
(* C6: after remove_node(x), x is no member, no ring entry references x,   *)
(* the ring is shorter by exactly the number of entries x held, and the    *)
(* entries of the other nodes are all there in the same relative order;    *)
(* remove_node of a non-member changes neither the ring nor the members.   *)
(***************************************************************************)
C6_RemoveNodeEffect ==
    [][\A x \in NodeIds :
          RemoveNode(x) =>
              /\ x \notin nodes'
              /\ nodes' = nodes \ {x}
              /\ \A j \in 1..Len(ring') : ring'[j][2] # x
              /\ Len(ring') = Len(ring) - EntriesOf(ring, x)
              /\ ring' = SelectSeq(ring, LAMBDA e : e[2] # x)
              /\ x \notin nodes => (ring' = ring /\ nodes' = nodes)
      ]_ringVars

\* remove_node has removed a node whose entry lay between the entries of the
\* nodes that remain.
C6_Witness ==
    /\ ret.op = "remove_node" /\ ret.dropped = replica_count
    /\ ret.arg \notin nodes
    /\ Len(ring) >= 2
    /\ \E j \in 2..(Len(BeforeRemove) - 1) :
           /\ BeforeRemove[j][2] = ret.arg
           /\ BeforeRemove[j - 1][2] # ret.arg
           /\ BeforeRemove[j + 1][2] # ret.arg

(***************************************************************************)
(* C7: on every non-empty ring, a ring of a single entry included, and for *)
(* every key k, get_nodes(k) is non-empty and its first element is         *)
(* get_node(k).                                                            *)
(***************************************************************************)
C7_GetNodesStartsWithGetNode ==
    ring # <<>> =>
        \A k \in Keys :
            LET found == get_nodes(ring, nodes, k).nodes
            IN  /\ found # <<>>
                /\ found[1] = get_node(ring, k).node

(***************************************************************************)
(* C8: on every non-empty ring and for every key k, get_nodes(k) holds no  *)
(* node twice, holds member nodes only, and is no longer than the number   *)
(* of member nodes.                                                        *)
(***************************************************************************)
C8_GetNodesDistinctMembers ==
    /\ ring # <<>> =>
         \A k \in Keys :
             LET found == get_nodes(ring, nodes, k).nodes
             IN  /\ NoDuplicates(found)
                 /\ Elements(found) \subseteq nodes
                 /\ Len(found) <= Cardinality(nodes)
    /\ ret.op = "get_nodes" =>
         /\ NoDuplicates(ret.nodes)
         /\ Elements(ret.nodes) \subseteq nodes
         /\ Len(ret.nodes) <= Cardinality(nodes)

\* get_nodes has returned two nodes from a walk that met the first node twice
\* before it met the second.
C8_Witness ==
    /\ ret.op = "get_nodes" /\ Len(ret.nodes) >= 2
    /\ \E k \in Keys :
           LET index == StartIndex(ring, k)
           IN  /\ ret.nodes = get_nodes(ring, nodes, k).nodes
               /\ index + 2 <= Len(ring)
               /\ ring[index + 1][2] = ring[index + 2][2]

(***************************************************************************)
(* C9: get_nodes(k) stops only when every member node is collected or      *)
(* every ring entry has been examined; hence on a ring where every member  *)
(* owns an entry, get_nodes(k) holds every member node.  It is stated for   *)
(* rings of two entries or more; the ring of one entry is the case of C7.  *)
(***************************************************************************)
C9_GetNodesCollectsEveryMember ==
    (Len(ring) >= 2 /\ \A n \in nodes : EntriesOf(ring, n) >= 1) =>
        \A k \in Keys : Elements(get_nodes(ring, nodes, k).nodes) = nodes

(***************************************************************************)
(* C10: on an empty ring get_node(k) and get_nodes(k) both fail with the   *)
(* precondition-violation error (the failed assertion on the ring) for     *)
(* every key k, and the failed call leaves ring and members unchanged.     *)
(***************************************************************************)
C10_EmptyRingPreconditionError ==
    [][\A k \in Keys :
          (ring = <<>> /\ (GetNode(k) \/ GetNodes(k))) =>
              /\ ret'.err = "AssertionError"
              /\ ring' = ring
              /\ nodes' = nodes
      ]_ringVars

(***************************************************************************)
(* Definitions the properties of the distinct counter share.               *)
(***************************************************************************)

\* The largest k such that 2 ^ k divides n, for n >= 1.
LargestPowerOfTwoDividing(n) ==
    CHOOSE k \in 0..n :
        /\ n % (2 ^ k) = 0
        /\ \A j \in (k + 1)..n : n % (2 ^ j) # 0

\* R_i: how many leading buckets of a row hold a timestamp > since.
LeadingRun(row, since) ==
    CHOOSE k \in 0..NBuckets :
        /\ \A b \in 0..(k - 1) : row[b] > since
        /\ k = NBuckets \/ row[k] <= since

\* The sum of R_i over the rows from i on; Rbar is this over n_hashes.
RECURSIVE SumOfRuns(_, _, _)
SumOfRuns(b, since, i) ==
    IF i > NHashes THEN 0
    ELSE LeadingRun(b[i], since) + SumOfRuns(b, since, i + 1)

\* 2 ^ Rbar / 0.77351, cut to its integer part and rounded to the nearest
\* integer.
Truncated(total) == two_to_the(total) \div Phi
Rounded(total) == (2 * two_to_the(total) + Phi) \div (2 * Phi)

\* The suffix of a metric of flush.
SuffixOf(metric) == metric.name[3]

(***************************************************************************)
(* C11: when the timestamps of add do not decrease, each bucket [i][b]     *)
(* holds the latest timestamp of the adds whose i-th hash had a run of     *)
(* exactly b low-order zero bits (a longer run than n_buckets - 1 counted  *)
(* in the last bucket), and 0 when there was no such add.                  *)
(***************************************************************************)
C11_BucketHoldsLatestRunTimestamp ==
    \A i \in Rows, b \in BucketIds :
        buckets[i][b] = IF latest[i][b] = Never THEN 0 ELSE latest[i][b]

(***************************************************************************)
(* C12 as stated: distinct(since) returns 2 ^ Rbar / 0.77351 rounded to    *)
(* the nearest integer, Rbar the mean over the rows of R_i, the number of  *)
(* leading buckets of row i whose timestamp is > since.                    *)
(***************************************************************************)
C12_DistinctReturnsRounded ==
    dret.op = "distinct" =>
        dret.value = Rounded(SumOfRuns(buckets, dret.arg, 1))

(***************************************************************************)
(* C12, amended: distinct(since) returns the integer part of               *)
(* 2 ^ Rbar / 0.77351, Rbar the mean over the rows of R_i, the number of   *)
(* leading buckets of row i whose timestamp is > since, the count of a row *)
(* stopping at its first bucket that fails the test.                       *)
(***************************************************************************)
C12_DistinctReturnsIntegerPart ==
    dret.op = "distinct" =>
        dret.value = Truncated(SumOfRuns(buckets, dret.arg, 1))

\* distinct was called when a row has a bucket newer than since behind one
\* that is not, the mean of the runs is not whole, and the integer part
\* differs from the nearest integer.
C12_Witness ==
    /\ dret.op = "distinct"
    /\ \E i \in Rows, b \in BucketIds :
           /\ buckets[i][b] > dret.arg
           /\ LeadingRun(buckets[i], dret.arg) < b
    /\ SumOfRuns(buckets, dret.arg, 1) % NHashes # 0
    /\ dret.value # Rounded(SumOfRuns(buckets, dret.arg, 1))

(***************************************************************************)
(* C13: flush(interval, timestamp) returns four metrics, one for each of   *)
(* the suffixes .count, .count_1min, .count_1hour and .count_1day, in the  *)
(* ascending order of the suffixes, each named prefix + name + suffix and  *)
(* carrying the timestamp argument, with the values distinct(0),           *)
(* distinct(now - 60), distinct(now - 3600) and distinct(now - 86400) for  *)
(* the reading now of the wall clock.                                      *)
(***************************************************************************)
C13_FlushReturnsFourSortedMetrics ==
    dret.op = "flush" =>
        LET m == dret.metrics
            now == dret.arg
            expected(suffix) ==
                CASE suffix = ".count" -> distinct(buckets, 0)
                  [] suffix = ".count_1min" -> distinct(buckets, now - 60)
                  [] suffix = ".count_1hour" -> distinct(buckets, now - 3600)
                  [] suffix = ".count_1day" -> distinct(buckets, now - 86400)
        IN  /\ Len(m) = 4
            /\ {SuffixOf(m[j]) : j \in 1..4} = Suffixes
            /\ \A j \in 1..3 :
                   CodesLess(Codes(SuffixOf(m[j])), Codes(SuffixOf(m[j + 1])))
            /\ \A j \in 1..4 :
                   /\ m[j].name = <<self_prefix, self_name, SuffixOf(m[j])>>
                   /\ m[j].timestamp = dret.stamp
                   /\ m[j].value = expected(SuffixOf(m[j]))

\* flush was called with a timestamp other than the wall clock's reading,
\* and the windows give values that differ.
C13_Witness ==
    /\ dret.op = "flush"
    /\ dret.stamp # dret.arg
    /\ Len(dret.metrics) = 4
    /\ dret.metrics[1].value > dret.metrics[2].value
    /\ dret.metrics[2].value > dret.metrics[3].value

(***************************************************************************)
(* C14: for every n >= 1, zeros(n) is the number of low-order zero bits    *)
(* before the first set bit of n, the largest k such that 2 ^ k divides n: *)
(* zeros(1) = 0, zeros(2) = 1, zeros(4) = 2, zeros(5) = 0, zeros(8) = 3,   *)
(* zeros(9) = 0; so is the run add counts for each hash value >= 1.        *)
(***************************************************************************)
C14_ZerosCountsLowOrderZeroBits ==
    /\ \A n \in 1..(Modulus - 1) : zeros(n) = LargestPowerOfTwoDividing(n)
    /\ zeros(1) = 0 /\ zeros(2) = 1 /\ zeros(4) = 2
    /\ zeros(5) = 0 /\ zeros(8) = 3 /\ zeros(9) = 0
    /\ dret.op = "add" =>
           \A i \in Rows :
               dret.hashed[i] >= 1 =>
                   LET k == LargestPowerOfTwoDividing(dret.hashed[i])
                   IN  buckets[i][Min2(NBuckets - 1, k)] = dret.arg

\* add hashed an item to 8 in one row, three low-order zero bits, and in
\* another row to a value with a run shorter than n_buckets - 1.
C14_Witness ==
    /\ dret.op = "add"
    /\ \E i, j \in Rows :
           /\ dret.hashed[i] = 8
           /\ dret.hashed[j] >= 1
           /\ zeros(dret.hashed[j]) < NBuckets - 1
           /\ buckets[i][NBuckets - 1] = dret.arg
           /\ buckets[j][zeros(dret.hashed[j])] = dret.arg

(***************************************************************************)
(* Definitions the properties of the histogram share.                      *)
(***************************************************************************)

RECURSIVE SumOf(_)
SumOf(values) == IF values = <<>> THEN 0 ELSE Head(values) + SumOf(Tail(values))

\* The mean of a non-empty sequence of values.
MeanOf(values) == Frac(SumOf(values), Len(values))

\* The sum of the squared deviations from the mean.
RECURSIVE SumSqDevFrom(_, _)
SumSqDevFrom(values, m) ==
    IF values = <<>> THEN float(0)
    ELSE FracAdd(FracMul(FracSub(float(Head(values)), m),
                         FracSub(float(Head(values)), m)),
                 SumSqDevFrom(Tail(values), m))
SumSqDev(values) == SumSqDevFrom(values, MeanOf(values))

\* One step of Welford's recurrence, count being the new count.
Welford(pair, n, value) ==
    LET m == FracAdd(pair[1], FracDiv(FracSub(float(value), pair[1]), n))
    IN  <<m, FracAdd(pair[2], FracMul(FracSub(float(value), pair[1]),
                                      FracSub(float(value), m)))>>

\* ceil(1 + log2(n)) for n >= 1, by its definition.
Sturges(n) == CHOOSE k \in 1..(n + 1) : 2 ^ (k - 1) >= n /\ (k = 1 \/ 2 ^ (k - 2) < n)

Zeros(k) == [j \in 1..k |-> 0]
Queries == {"min", "max", "mean", "std_dev"}

(***************************************************************************)
(* C15: after any updates since construction or the last clear(), count    *)
(* is the number of updates, the sum is the sum of the values updated,     *)
(* min() is the smallest and max() the largest value of the whole stream,  *)
(* whatever the reservoir holds.                                           *)
(***************************************************************************)
C15_CountSumMinMaxOfWholeStream ==
    /\ hcount = Len(stream)
    /\ hsum = SumOf(stream)
    /\ Len(stream) > 0 =>
           /\ min(hcount, hmin) = float(SeqMin(stream))
           /\ max(hcount, hmax) = float(SeqMax(stream))

\* After a clear, more values were updated than the reservoir holds and
\* the reservoir has lost the smallest of them.
C15_Witness ==
    /\ cleared
    /\ Len(stream) > Capacity
    /\ \A j \in 1..Len(sample.values) : sample.values[j] # SeqMin(stream)
    /\ SeqMin(stream) < SeqMax(stream)

(***************************************************************************)
(* C16: the pair (M, S) becomes (value, 0) on the first update after       *)
(* construction or clear() and only then; every later update, whatever     *)
(* the values (those that bring the running mean to -1 too), applies       *)
(* M' = M + (value - M) / count and S' = S + (value - M)(value - M'), so   *)
(* that variance() is the sample variance of the whole stream for          *)
(* count > 1 and 0 for count <= 1.                                         *)
(***************************************************************************)
C16_WelfordPairOnEveryLaterUpdate ==
    [][\A value \in HistValues :
          HUpdate(value) =>
              /\ variance' = IF hcount = 0 THEN <<float(value), float(0)>>
                             ELSE Welford(variance, hcount', value)
              /\ get_variance(hcount', variance') =
                     IF hcount' > 1
                     THEN FracDiv(SumSqDev(stream'), hcount' - 1)
                     ELSE float(0)
      ]_histVars

(***************************************************************************)
(* C17: on a histogram with no observation, freshly constructed or after   *)
(* clear(), min(), max(), mean() and std_dev() return 0.0, percentiles of  *)
(* k arguments returns k zeros and histogram() returns ten buckets of      *)
(* zero; none of them raises.                                              *)
(***************************************************************************)
C17_NoObservationQueriesReturnZeros ==
    hcount = 0 =>
        /\ hret.op \in Queries \cup {"percentiles", "histogram"} =>
               hret.err = ""
        /\ hret.op \in Queries => hret.value = float(0)
        /\ hret.op = "percentiles" => hret.scores = Zeros(Len(hret.arg))
        /\ hret.op = "histogram" => hret.scores = Zeros(10)

\* histogram() was called on a histogram emptied by clear().
C17_Witness ==
    /\ cleared
    /\ hcount = 0
    /\ hret.op = "histogram"
    /\ Len(hret.scores) = 10

(***************************************************************************)
(* C18: for count > 0 (count = 1 and samples of equal values too),         *)
(* histogram() returns ceil(1 + log2(count)) buckets whose values sum to   *)
(* the number of values in the reservoir.                                  *)
(***************************************************************************)
C18_HistogramBucketsSumToSample ==
    (hret.op = "histogram" /\ hcount > 0) =>
        /\ hret.err = ""
        /\ Len(hret.scores) = Sturges(hcount)
        /\ SumOf(hret.scores) = Len(sample.values)

C20_PercentilesMonotoneAndInRange ==
    (hret.op = "percentiles" /\ hcount > 0) =>
        LET ps == hret.arg
            n == Len(sample.values)
            smallest == Thousand * SeqMin(sample.values)
            largest == Thousand * SeqMax(sample.values)
        IN  /\ hret.err = ""
            /\ Len(hret.scores) = Len(ps)
            /\ \A i, j \in 1..Len(ps) :
                   ps[i] <= ps[j] => hret.scores[i] <= hret.scores[j]
            /\ \A i \in 1..Len(ps) :
                   /\ smallest <= hret.scores[i]
                   /\ hret.scores[i] <= largest
                   /\ ps[i] * (n + 1) < Thousand => hret.scores[i] = smallest
                   /\ ps[i] * (n + 1) >= Thousand * n =>
                          hret.scores[i] = largest

\* percentiles(p, q) was called with p < q on a reservoir of different
\* values, and the score of q lies strictly between two of them.
C20_Witness ==
    /\ hret.op = "percentiles"
    /\ hcount > Capacity
    /\ hret.arg[1] < hret.arg[2]
    /\ hret.scores[1] < hret.scores[2]
    /\ Thousand * SeqMin(sample.values) < hret.scores[2]
    /\ hret.scores[2] < Thousand * SeqMax(sample.values)

(***************************************************************************)
(* C21: report(timestamp) completes without error in every state and       *)
(* returns ten triples (prefix + name + suffix, value, timestamp), one for *)
(* each of .min, .max, .mean, .stddev, .median and the five percentile     *)
(* suffixes, each carrying the timestamp argument.                         *)
(***************************************************************************)
C21_ReportReturnsTenMetrics ==
    hret.op = "report" =>
        /\ hret.err = ""
        /\ Len(hret.scores) = 10
        /\ \A j \in 1..10 : hret.scores[j].timestamp = hret.arg[1]

C30_WelfordSNeverNegative ==
    /\ FracLeq(float(0), variance[2])
    /\ FracLeq(float(0), get_variance(hcount, variance))
    /\ hret.op = "std_dev" => FracLeq(float(0), hret.value)

\* std_dev() was called on values that differ, after the pair (M, S) was
\* set anew by a running mean of -1.
C30_Witness ==
    /\ hret.op = "std_dev"
    /\ hcount >= 3
    /\ ~FracLeq(hret.value, float(0))
    /\ \E j \in 1..(Len(stream) - 1) :
           SumOf(SubSeq(stream, 1, j)) = -j

(***************************************************************************)
(* Definitions the properties of the counter in any order share.           *)
(***************************************************************************)

\* The cutoffs of distinct the properties range over: the timestamps, 0,
\* and the cutoffs of the three windows at every reading of the clock.
Sinces ==
    Times \cup {0} \cup {now - w : now \in Times, w \in {60, 3600, 86400}}

CountQueries == {"distinct", "count", "count_1min", "count_1hour", "count_1day"}

(***************************************************************************)
(* C26: add(timestamp, item) writes in every hash row i exactly one        *)
(* bucket, the one at index min(n_buckets - 1, zeros(hash_i(item))), sets  *)
(* it to timestamp whatever it held (a smaller timestamp lowers it), and   *)
(* leaves every other bucket and the hash tables unchanged.                *)
(***************************************************************************)
C26_AddWritesOneBucketPerRow ==
    [][\A when \in Times, item \in Items :
          (dret'.op = "add" /\ dret'.arg = when /\ AddAnyOrder(when, item)) =>
              /\ tables' = tables
              /\ \A i \in Rows, b \in BucketIds :
                     buckets'[i][b] =
                         IF b = Min2(NBuckets - 1,
                                     zeros(sbox_hash(tables[i], item)))
                         THEN when
                         ELSE buckets[i][b]
      ]_distinctVars

\* add lowered a bucket: it wrote a timestamp smaller than the one an
\* earlier add had left there.
C26_Witness ==
    /\ dret.op = "add"
    /\ dret.value = 1
    /\ \E i \in Rows, b \in BucketIds : buckets[i][b] = dret.arg
    /\ \E i \in Rows, b \in BucketIds : buckets[i][b] > dret.arg

(***************************************************************************)
(* C27: for every counter state and since1 <= since2,                      *)
(* distinct(since1) >= distinct(since2); hence                             *)
(* count_1min(now) <= count_1hour(now) <= count_1day(now) for every now;   *)
(* and the count queries leave the bucket grid as it is.                   *)
(***************************************************************************)
C27_DistinctMonotoneInSince ==
    /\ [](/\ \A s1, s2 \in Sinces :
                s1 <= s2 => distinct(buckets, s1) >= distinct(buckets, s2)
          /\ \A now \in Times :
                /\ count_1min(buckets, now) <= count_1hour(buckets, now)
                /\ count_1hour(buckets, now) <= count_1day(buckets, now))
    /\ [][dret'.op \in CountQueries =>
              buckets' = buckets /\ tables' = tables]_distinctVars

\* count_1day(now) was called and is larger than count_1hour(now), and at
\* some reading of the clock count_1hour is larger than count_1min.
C27_Witness ==
    /\ dret.op = "count_1day"
    /\ count_1hour(buckets, dret.arg) < dret.value
    /\ \E now \in Times : count_1min(buckets, now) < count_1hour(buckets, now)
    /\ \E i \in Rows, b \in BucketIds : buckets[i][b] > 0

(***************************************************************************)
(* C28: a count over a window is never above the count of all time: for    *)
(* every reporter state reached by updates at wall times >= 0 and every    *)
(* now >= 0 (now smaller than the window too), count_1min(now),            *)
(* count_1hour(now) and count_1day(now) are each <= count(); a bucket      *)
(* never written (0) is never counted.                                     *)
(***************************************************************************)
C28_WindowCountAtMostCount ==
    dret.op = "flush" =>
        \A j \in 1..Len(dret.metrics) :
            /\ dret.metrics[j].value <= count(buckets)
            /\ dret.metrics[j].value <= dret.metrics[1].value

\* The orders in which the set S of nodes can be handed to the constructor,
\* each node once.
OrdersOf(S) ==
    {o \in [1..Cardinality(S) -> S] : \A i, j \in 1..Cardinality(S) :
                                          o[i] = o[j] => i = j}

\* Every member was added once and is still there; nothing else is.
EachMemberOnce ==
    /\ \A n \in nodes : EntriesOf(ring, n) = replica_count
    /\ Len(ring) = Cardinality(nodes) * replica_count

(***************************************************************************)
(* C29: the ring depends on the set of members only: a ring whose members  *)
(* were each added once is the ring the constructor builds from those      *)
(* nodes in any order, so rings built in two orders are the same sequence  *)
(* and, once the last member is added, get_node(k) and get_nodes(k) return *)
(* on the ring of any order what they return on this one, for every key k. *)
(***************************************************************************)
C29_RingIndependentOfAddOrder ==
    EachMemberOnce =>
        \A order \in OrdersOf(nodes) :
            /\ init_ring(<<>>, order) = ring
            /\ ret.op = "add_node" =>
                   \A key \in Keys :
                       /\ get_node(init_ring(<<>>, order), key)
                              = get_node(ring, key)
                       /\ get_nodes(init_ring(<<>>, order), nodes, key)
                              = get_nodes(ring, nodes, key)

\* add_node put the entries of the node added last in front of entries of
\* a node added before: the ring ends with another node's entry, and three
\* members give six orders.
C29_Witness ==
    /\ ret.op = "add_node"
    /\ EachMemberOnce
    /\ Cardinality(nodes) = 3
    /\ ring[Len(ring)][2] # ret.arg
    /\ ring[1][2] = ret.arg

(***************************************************************************)
(* C24: with one SBoxHash table, whichever the constructor made, two       *)
(* different single-character inputs hash to different values; hashing the *)
(* same input twice gives the same value; a hash value is in [0, 2^32).    *)
(***************************************************************************)
C24_SingleCharsHashApart ==
    /\ \A j \in 1..Len(hash_ret) : hash_ret[j].value \in 0..(Modulus - 1)
    /\ Len(hash_ret) = 2 =>
           /\ hash_ret[1].data = hash_ret[2].data =>
                  hash_ret[1].value = hash_ret[2].value
           /\ (/\ Len(hash_ret[1].data) = 1
               /\ Len(hash_ret[2].data) = 1
               /\ hash_ret[1].data # hash_ret[2].data) =>
                  hash_ret[1].value # hash_ret[2].value

\* The entries of the removed node in self.ring.
RemovedEntries == EntriesOf(ring, rm.node)

(***************************************************************************)
(* C23 as stated: a read of self.ring by get_node or get_nodes, made while *)
(* the rebuild in remove_node has passed some but not all of the removed   *)
(* node's entries, sees a partially filtered ring: some but not all of the *)
(* removed node's entries are in it.                                       *)
(***************************************************************************)
C23_ReadMidRebuildSeesPartialRing ==
    rd.mid => (0 < rd.seen /\ rd.seen < rm.before)

(***************************************************************************)
(* C23 amended: no read of self.ring sees a partially filtered ring.       *)
(* remove_node builds the filtered list aside and binds self.ring to it in *)
(* one assignment: while the call runs self.ring holds all entries of the  *)
(* removed node and self.nodes does not hold the node; after it self.ring  *)
(* holds none; every read by get_node or get_nodes saw all or none.        *)
(***************************************************************************)
C23_ReaderSeesAllOrNoneOfRemovedNode ==
    /\ rm.pc = "comprehension" =>
           /\ RemovedEntries = rm.before
           /\ rm.node \notin nodes
    /\ rm.pc = "done" => RemovedEntries = 0 /\ rm.node \notin nodes
    /\ rm.pc # "idle" => rd.seen \in {0, rm.before}
    /\ rd.mid => rd.seen = rm.before

\* get_node read self.ring while the rebuild had passed one of the two
\* entries of the removed node, saw both, and returned the removed node,
\* which self.nodes no longer holds.
C23_Witness ==
    /\ rd.op = "get_node" /\ rd.pc = "done" /\ rd.err = ""
    /\ rd.mid
    /\ rm.before = 2
    /\ rd.seen = 2
    /\ rd.node = rm.node
    /\ rm.node \notin nodes

====
